---- MODULE Spec2Model ----
(***************************************************************************)
(* Model of install_copilot_agents.py: CopilotAgentInstaller.install and   *)
(* the steps it drives, over an abstract file system holding the target    *)
(* tree (.github/copilot-instructions.md and .copilot/), the timestamped   *)
(* backup directory and the temporary download area.                       *)
(***************************************************************************)
EXTENDS Integers, Sequences, FiniteSets, TLC

(* ---------------------------- bounds ---------------------------------- *)
\* file contents are 1..MaxContent
MaxContent == 2
\* files inside a .copilot directory are README.md and 1..MaxFiles others
MaxFiles == 1

(* ------------------------- file system values ------------------------- *)
\* a path that holds no file
Absent == -1
\* the content of a file whose copy was cut short
Partial == 0
Contents == 1..MaxContent
FileVals == {Absent, Partial} \cup Contents
\* name of README.md inside .copilot
Readme == 0
Names == 0..MaxFiles
NoFiles == [n \in Names |-> Absent]
\* a directory path that does not exist
NoDir == [exists |-> FALSE, files |-> NoFiles]
Dir(f) == [exists |-> TRUE, files |-> f]
\* directory trees whose files carry contents of the set C
Trees(C) == {NoDir} \cup {Dir(f) : f \in [Names -> {Absent} \cup C]}
\* a backup directory path that does not exist
NoBackupFs == [exists |-> FALSE, marker |-> Absent, copilot |-> NoDir]
\* a temporary area that does not exist
NoTempFs == [exists |-> FALSE, extracted |-> <<>>]

(* shutil.copy2(src, dst) raising: dst untouched, truncated, or written    *)
(* in full before the metadata copy failed                                 *)
Copy2Fail(old, src) == {old, Partial, src}

\* the files of f with the names below i, the others missing
Prefix(f, i) == [n \in Names |-> IF n < i THEN f[n] ELSE Absent]
\* the files of f with the names from i on, the others missing
Suffix(f, i) == [n \in Names |-> IF n < i THEN Absent ELSE f[n]]

(* shutil.copytree(src, dst) raising, dst not existing before: dst was not *)
(* created, or was created and holds the entries copied before the error   *)
CopytreeFail(src) ==
  {NoDir} \cup {Dir(Prefix(src.files, i)) : i \in 0..(MaxFiles + 1)}

(* shutil.rmtree(d) raising: the directory is still there without the      *)
(* entries removed before the error                                        *)
RmtreeFail(d) == {Dir(Suffix(d.files, i)) : i \in 0..(MaxFiles + 1)}

(* ------------------------------ inputs -------------------------------- *)
\* the first top-level directory of an extracted archive
SourceDirs ==
  [marker : {Absent, MaxContent},
   copilot : Trees({MaxContent}),
   readme : {Absent, 1}]
\* what iterdir() finds in the temporary area: no directory, or one whose
\* first entry is the given source directory
Archives == {<<>>} \cup {<<a>> : a \in SourceDirs}
\* forms of --url: a repository URL, "github.com" alone, a direct ZIP URL
UrlKinds == {"repo", "short", "direct"}
\* what may already sit at the path .copilot_backup_<timestamp>
StaleBackups ==
  {NoBackupFs,
   [exists |-> TRUE, marker |-> 1, copilot |-> Dir([n \in Names |-> 1])]}

StepNames == {"validate_target", "check_existing_installation",
              "create_backup", "download_from_github", "install_files",
              "rollback", "cleanup"}

VARIABLES
  targetKind,   \* target_dir: "missing", "file" or "dir"
  githubDir,    \* target_dir/.github exists
  marker,       \* content of .github/copilot-instructions.md, or Absent
  copilot,      \* target_dir/.copilot
  backupFs,     \* target_dir/.copilot_backup_<timestamp>
  tempFs,       \* the directory made by tempfile.mkdtemp
  force,        \* self.force
  backup,       \* self.backup
  temp_dir,     \* self.temp_dir is set (not None)
  backup_dir,   \* self.backup_dir is set (not None)
  pc,           \* the statement of install() that runs next
  steps,        \* the steps executed so far, in order
  ret,          \* what each executed step returned or whether it raised
  result,       \* return value of install(): "none" until it returns
  source_dir,   \* the source_dir install_files picked, <<>> before
  pre           \* the file system before the run

vars == <<targetKind, githubDir, marker, copilot, backupFs, tempFs, force,
          backup, temp_dir, backup_dir, pc, steps, ret, result, source_dir,
          pre>>

fsVars == <<targetKind, githubDir, marker, copilot, backupFs, tempFs>>
selfVars == <<force, backup, temp_dir, backup_dir>>

(* CopilotAgentInstaller.__init__ over an arbitrary target                 *)
Init ==
  /\ targetKind \in {"missing", "file", "dir"}
  /\ githubDir \in BOOLEAN
  /\ marker \in {Absent} \cup Contents
  /\ copilot \in Trees(Contents)
  /\ backupFs \in StaleBackups
  /\ targetKind # "dir" =>
       githubDir = FALSE /\ marker = Absent /\ copilot = NoDir
  /\ force \in BOOLEAN
  /\ backup \in BOOLEAN
  /\ targetKind # "dir" \/ ~backup => backupFs = NoBackupFs
  /\ marker # Absent => githubDir
  /\ tempFs = NoTempFs
  /\ temp_dir = FALSE
  /\ backup_dir = FALSE
  /\ pc = "validate_target"
  /\ steps = <<>>
  /\ ret = [s \in StepNames |-> "none"]
  /\ result = "none"
  /\ source_dir = <<>>
  /\ pre = [githubDir |-> githubDir, marker |-> marker, copilot |-> copilot,
            backupFs |-> backupFs]

\* a step ran and returned r; install() goes on at statement next
Ran(step, r, next) ==
  /\ steps' = Append(steps, step)
  /\ ret' = [ret EXCEPT ![step] = r]
  /\ pc' = next

\* install() returns r
Return(r) == result' = r

(* -------------------- the branches of install() ----------------------- *)
\* faulty variants: returning at once, or undoing an install never begun
AfterDownloadFailSkipsCleanup == "done"
AfterDownloadFailRollsBack == "rollback"
\* lines 284-286: download failed, cleanup() runs and install() returns
AfterDownloadFail == "cleanup"
\* lines 289-291: install_files failed, rollback() runs
AfterInstallFail == "rollback"
\* faulty variant: returning right after rollback()
AfterRollbackSkipsCleanup == "done"
\* lines 291-292: cleanup() follows rollback()
AfterRollback == "cleanup"
\* faulty variant: a cleanup() that raised turns success into failure
ReturnNeedsCleanCleanup(c) ==
  IF ret["install_files"] = "ok" /\ c = "ok" THEN "True" ELSE "False"
\* lines 286, 293, 300: the value install() returns once cleanup() has run;
\* what cleanup() did (c) plays no part
ReturnAfterCleanup(c) ==
  IF ret["install_files"] = "ok" THEN "True" ELSE "False"

(* ----------------------- validate_target ------------------------------ *)
validate_target ==
  /\ pc = "validate_target"
  /\ IF targetKind = "dir"
     THEN Ran("validate_target", "ok", "check_existing_installation")
          /\ UNCHANGED result
     ELSE Ran("validate_target", "fail", "done") /\ Return("False")
  /\ UNCHANGED <<fsVars, selfVars, source_dir, pre>>

(* ------------------- check_existing_installation ---------------------- *)
ExistingInstallation == marker # Absent \/ copilot.exists

\* faulty variant: .copilot alone does not count as an installation
BlockedMarkerOnly == marker # Absent /\ ~force
\* lines 80-87: an installation exists and --force was not given
Blocked == ExistingInstallation /\ ~force

check_existing_installation ==
  /\ pc = "check_existing_installation"
  /\ IF Blocked
     THEN Ran("check_existing_installation", "fail", "done")
          /\ Return("False")
     ELSE Ran("check_existing_installation", "ok", "create_backup")
          /\ UNCHANGED result
  /\ UNCHANGED <<fsVars, selfVars, source_dir, pre>>

(* --------------------------- create_backup ---------------------------- *)
\* self.backup_dir.mkdir(exist_ok=True)
BackupMkdir(b) ==
  IF b.exists
  THEN {[fs |-> b, ok |-> TRUE]}
  ELSE {[fs |-> [b EXCEPT !.exists = TRUE], ok |-> TRUE],
        [fs |-> b, ok |-> FALSE]}

\* copy2 of the marker file into the backup directory, when it exists
BackupMarker(s) ==
  IF marker = Absent
  THEN {s}
  ELSE {[fs |-> [s.fs EXCEPT !.marker = marker], ok |-> TRUE]} \cup
       {[fs |-> [s.fs EXCEPT !.marker = m], ok |-> FALSE] :
          m \in Copy2Fail(s.fs.marker, marker)}

\* faulty variant: .copilot is not backed up
BackupCopilotSkipped(s) == {s}
\* copytree of .copilot into the backup directory, when it exists
BackupCopilot(s) ==
  IF ~copilot.exists
  THEN {s}
  ELSE IF s.fs.copilot.exists
  THEN {[s EXCEPT !.ok = FALSE]}
  ELSE {[fs |-> [s.fs EXCEPT !.copilot = copilot], ok |-> TRUE]} \cup
       {[fs |-> [s.fs EXCEPT !.copilot = c], ok |-> FALSE] :
          c \in CopytreeFail(copilot)}

\* the try block of create_backup: a stage runs on the outcomes that have
\* not raised, an outcome that raised is final
BackupOutcomes ==
  LET A == BackupMkdir(backupFs)
      B == UNION {IF s.ok THEN BackupMarker(s) ELSE {s} : s \in A}
  IN  UNION {IF s.ok THEN BackupCopilot(s) ELSE {s} : s \in B}

create_backup ==
  /\ pc = "create_backup"
  /\ IF ~backup
     THEN /\ Ran("create_backup", "ok", "download_from_github")
          /\ UNCHANGED <<backupFs, backup_dir, result>>
     ELSE /\ backup_dir' = TRUE
          /\ \E o \in BackupOutcomes :
               /\ backupFs' = o.fs
               /\ IF o.ok
                  THEN Ran("create_backup", "ok", "download_from_github")
                       /\ UNCHANGED result
                  ELSE Ran("create_backup", "fail", "done")
                       /\ Return("False")
  /\ UNCHANGED <<targetKind, githubDir, marker, copilot, tempFs, force,
                 backup, temp_dir, source_dir, pre>>

(* ------------------------ download_from_github ------------------------ *)
\* the ZIP extracts to the archive a; extractall raising leaves none or all
\* of it behind
download_from_github ==
  /\ pc = "download_from_github"
  /\ \E url \in UrlKinds, a \in Archives,
        fp \in {"mkdtemp", "urlretrieve", "extractall", "none"} :
       IF fp = "mkdtemp"
       THEN /\ UNCHANGED <<tempFs, temp_dir>>
            /\ Ran("download_from_github", "fail", AfterDownloadFail)
       ELSE /\ temp_dir' = TRUE
            /\ IF url = "short" \/ fp = "urlretrieve"
               THEN /\ tempFs' = [exists |-> TRUE, extracted |-> <<>>]
                    /\ Ran("download_from_github", "fail", AfterDownloadFail)
               ELSE IF fp = "extractall"
               THEN /\ tempFs' \in {[exists |-> TRUE, extracted |-> e] :
                                      e \in {<<>>, a}}
                    /\ Ran("download_from_github", "fail", AfterDownloadFail)
               ELSE /\ tempFs' = [exists |-> TRUE, extracted |-> a]
                    /\ Ran("download_from_github", "ok", "install_files")
  /\ UNCHANGED <<targetKind, githubDir, marker, copilot, backupFs, force,
                 backup, backup_dir, result, source_dir, pre>>

(* ----------------------------- install_files -------------------------- *)
\* faulty variant: a missing marker file is an error, not a warning
InstallMarkerRequired(s, src) ==
  IF src.marker = Absent
  THEN {[s EXCEPT !.ok = FALSE]}
  ELSE {[s EXCEPT !.githubDir = TRUE, !.marker = src.marker]}
\* lines 172-182: .github/copilot-instructions.md; mkdir(exist_ok=True) can
\* raise only when .github is not there yet
InstallMarker(s, src) ==
  IF src.marker = Absent
  THEN {s}
  ELSE (IF s.githubDir THEN {} ELSE {[s EXCEPT !.ok = FALSE]}) \cup
       {[s EXCEPT !.githubDir = TRUE, !.marker = src.marker]} \cup
       {[s EXCEPT !.githubDir = TRUE, !.marker = m, !.ok = FALSE] :
          m \in Copy2Fail(s.marker, src.marker)}

\* faulty variant: the source's files are copied over the existing directory
InstallCopilotMerged(s, src) ==
  IF ~src.copilot.exists
  THEN {s}
  ELSE {[s EXCEPT !.copilot =
           Dir([n \in Names |-> IF src.copilot.files[n] # Absent
                                THEN src.copilot.files[n]
                                ELSE s.copilot.files[n]])]}
\* lines 184-199: the .copilot directory, removed and then copied
InstallCopilot(s, src) ==
  IF ~src.copilot.exists
  THEN {s}
  ELSE (IF s.copilot.exists
        THEN {[s EXCEPT !.copilot = c, !.ok = FALSE] :
                c \in RmtreeFail(s.copilot)}
        ELSE {}) \cup
       {[s EXCEPT !.copilot = src.copilot]} \cup
       {[s EXCEPT !.copilot = c, !.ok = FALSE] :
          c \in CopytreeFail(src.copilot)}

\* lines 201-207: README.md copied into .copilot
InstallReadme(s, src) ==
  IF src.readme = Absent
  THEN {s}
  ELSE (IF s.copilot.exists THEN {} ELSE {[s EXCEPT !.ok = FALSE]}) \cup
       {[s EXCEPT !.copilot =
           Dir([s.copilot.files EXCEPT ![Readme] = src.readme])]} \cup
       {[s EXCEPT !.copilot = Dir([s.copilot.files EXCEPT ![Readme] = r]),
                  !.ok = FALSE] :
          r \in Copy2Fail(s.copilot.files[Readme], src.readme)}

\* the try block of install_files from the state t of the target tree
InstallOutcomes(t, extracted) ==
  IF extracted = <<>>
  THEN {[t EXCEPT !.ok = FALSE]}
  ELSE LET src == extracted[1]
           A == InstallMarker(t, src)
           B == UNION {IF s.ok THEN InstallCopilot(s, src) ELSE {s} : s \in A}
       IN  UNION {IF s.ok THEN InstallReadme(s, src) ELSE {s} : s \in B}

install_files ==
  /\ pc = "install_files"
  /\ source_dir' = tempFs.extracted
  /\ \E o \in InstallOutcomes([githubDir |-> githubDir, marker |-> marker,
                               copilot |-> copilot, ok |-> TRUE],
                              tempFs.extracted) :
       /\ githubDir' = o.githubDir
       /\ marker' = o.marker
       /\ copilot' = o.copilot
       /\ IF o.ok
          THEN Ran("install_files", "ok", "cleanup")
          ELSE Ran("install_files", "fail", AfterInstallFail)
  /\ UNCHANGED <<targetKind, backupFs, tempFs, selfVars, result, pre>>

(* ------------------------------- rollback ----------------------------- *)
\* lines 232-236: the marker file copied back; .github is not created
RestoreMarker(s) ==
  IF backupFs.marker = Absent
  THEN {s}
  ELSE IF ~s.githubDir
  THEN {[s EXCEPT !.ok = FALSE]}
  ELSE {[s EXCEPT !.marker = backupFs.marker]} \cup
       {[s EXCEPT !.marker = m, !.ok = FALSE] :
          m \in Copy2Fail(s.marker, backupFs.marker)}

\* lines 238-244: .copilot removed and copied back
RestoreCopilot(s) ==
  IF ~backupFs.copilot.exists
  THEN {s}
  ELSE (IF s.copilot.exists
        THEN {[s EXCEPT !.copilot = c, !.ok = FALSE] :
                c \in RmtreeFail(s.copilot)}
        ELSE {}) \cup
       {[s EXCEPT !.copilot = backupFs.copilot]} \cup
       {[s EXCEPT !.copilot = c, !.ok = FALSE] :
          c \in CopytreeFail(backupFs.copilot)}

\* the try block of rollback from the state t of the target tree
RollbackOutcomes(t) ==
  LET A == RestoreMarker(t)
  IN  UNION {IF s.ok THEN RestoreCopilot(s) ELSE {s} : s \in A}

rollback ==
  /\ pc = "rollback"
  /\ IF ~backup_dir \/ ~backupFs.exists
     THEN /\ UNCHANGED <<githubDir, marker, copilot>>
          /\ Ran("rollback", "ok", AfterRollback)
     ELSE \E o \in RollbackOutcomes([githubDir |-> githubDir,
                                     marker |-> marker,
                                     copilot |-> copilot, ok |-> TRUE]) :
            /\ githubDir' = o.githubDir
            /\ marker' = o.marker
            /\ copilot' = o.copilot
            /\ Ran("rollback", IF o.ok THEN "ok" ELSE "fail", AfterRollback)
  /\ UNCHANGED <<targetKind, backupFs, tempFs, selfVars, result,
                 source_dir, pre>>

(* ------------------------------- cleanup ------------------------------ *)
\* the call of cleanup() and the return of install() that follows it
cleanup ==
  /\ pc = "cleanup"
  /\ IF temp_dir /\ tempFs.exists
     THEN \/ /\ tempFs' = NoTempFs
             /\ Ran("cleanup", "ok", "done")
          \/ /\ UNCHANGED tempFs
             /\ Ran("cleanup", "fail", "done")
     ELSE /\ UNCHANGED tempFs
          /\ Ran("cleanup", "ok", "done")
  /\ Return(ReturnAfterCleanup(ret'["cleanup"]))
  /\ UNCHANGED <<targetKind, githubDir, marker, copilot, backupFs, selfVars,
                 source_dir, pre>>

(* ------------------------------- install ------------------------------ *)
Next ==
  \/ validate_target
  \/ check_existing_installation
  \/ create_backup
  \/ download_from_github
  \/ install_files
  \/ rollback
  \/ cleanup

Spec == Init /\ [][Next]_vars

\* install() is sequential code: a step that can run does run
FairSpec == Spec /\ WF_vars(Next)

\* sys.exit(0 if success else 1)
ExitCode == IF result = "True" THEN 0 ELSE 1

(* ====================== properties of the installer =================== *)
Executed(step) == \E i \in 1..Len(steps) : steps[i] = step
\* position of an executed step among the executed steps
Pos(step) == CHOOSE i \in 1..Len(steps) : steps[i] = step
ExistingBefore == pre.marker # Absent \/ pre.copilot.exists
\* .github, the marker file and .copilot are as before the run
InstalledAsBefore ==
  /\ githubDir = pre.githubDir
  /\ marker = pre.marker
  /\ copilot = pre.copilot
\* the source directory install_files read
Src == source_dir[1]

\* C1: with backup enabled, create_backup succeeded and install_files
\* failed, at termination the target tree is as before the run and the
\* temporary area is removed.  Stated for the most favourable runs only:
\* no directory sat at the backup path, and neither rollback nor cleanup
\* raised.
C1_RollbackRestoresPreRunState ==
  (/\ pc = "done"
   /\ backup
   /\ ExistingBefore
   /\ pre.backupFs = NoBackupFs
   /\ ret["create_backup"] = "ok"
   /\ ret["install_files"] = "fail"
   /\ ret["rollback"] = "ok"
   /\ ret["cleanup"] = "ok")
  => InstalledAsBefore /\ ~tempFs.exists

\* C2 as stated: when download_from_github fails, at termination nothing
\* was written to the target tree and the temporary area is removed.
C2_FetchFailureWritesNothing ==
  (pc = "done" /\ ret["download_from_github"] = "fail")
  => /\ InstalledAsBefore
     /\ backupFs = pre.backupFs
     /\ ~tempFs.exists

\* C2 amended: when download_from_github fails, at termination .github,
\* the marker file and .copilot are as before the run, the backup
\* directory is the only path of the target tree that may have been
\* written and only with backup enabled, cleanup has run and the temporary
\* area is removed unless cleanup's rmtree raised, and the run fails.
C2_FetchFailureKeepsInstallation ==
  (pc = "done" /\ ret["download_from_github"] = "fail")
  => /\ InstalledAsBefore
     /\ (backupFs # pre.backupFs => backup /\ ret["create_backup"] = "ok")
     /\ Executed("cleanup")
     /\ (tempFs.exists => ret["cleanup"] = "fail")
     /\ result = "False"

C2_Witness ==
  /\ pc = "done"
  /\ ret["download_from_github"] = "fail"
  /\ ret["cleanup"] = "ok"
  /\ temp_dir
  /\ force /\ backup
  /\ pre.marker # Absent /\ pre.copilot.exists
  /\ backupFs # pre.backupFs

\* C3: when the target is not a directory, or an installation exists and
\* --force is not set, the run fails having written nothing: no backup
\* directory, no temporary area, the target unmodified, and none of
\* create_backup, download_from_github, install_files, rollback and cleanup
\* executed.
C3_PreconditionFailureWritesNothing ==
  (targetKind # "dir" \/ (ExistingBefore /\ ~force))
  => /\ InstalledAsBefore
     /\ backupFs = pre.backupFs
     /\ tempFs = NoTempFs
     /\ ~backup_dir /\ ~temp_dir
     /\ \A i \in 1..Len(steps) :
          steps[i] \in {"validate_target", "check_existing_installation"}
     /\ pc \in {"validate_target", "check_existing_installation", "done"}
     /\ (pc = "done" => result = "False")

C3_Witness ==
  /\ pc = "done"
  /\ targetKind = "dir"
  /\ pre.marker = Absent /\ pre.copilot.exists
  /\ ~force /\ backup
  /\ ret["check_existing_installation"] = "fail"

\* C4: with --force and backup enabled over an existing installation, from
\* the moment install_files is about to run (and so whenever the marker
\* file or .copilot differs from its state before the run) the backup
\* directory exists and holds identical copies of the marker file and of
\* .copilot as they were before the run.
C4_BackupBeforeOverwrite ==
  (/\ force /\ backup /\ ExistingBefore
   /\ \/ marker # pre.marker
      \/ copilot # pre.copilot
      \/ pc = "install_files"
      \/ Executed("install_files"))
  => /\ backup_dir
     /\ backupFs.exists
     /\ (pre.marker # Absent => backupFs.marker = pre.marker)
     /\ (pre.copilot.exists => backupFs.copilot = pre.copilot)

C4_Witness ==
  /\ force /\ backup
  /\ pre.marker # Absent /\ pre.copilot.exists
  /\ marker # pre.marker
  /\ copilot # pre.copilot
  /\ ret["install_files"] = "ok"

\* C5: when create_backup returns success with backup disabled or with
\* neither the marker file nor .copilot in the target, it has changed
\* nothing on the file system and has recorded no backup location.
C5_NothingToBackUpIsNoOp ==
  (/\ ret["create_backup"] = "ok"
   /\ (~backup \/ ~ExistingBefore))
  => backupFs = pre.backupFs /\ ~backup_dir

\* C6: a run that reached download_from_github executes cleanup, after
\* every other step, before it terminates; a run that has not reached
\* download_from_github has no temporary area.
C6_CleanupOnEveryPathAfterFetch ==
  /\ (pc = "done" /\ Executed("download_from_github"))
     => Executed("cleanup") /\ Pos("cleanup") = Len(steps)
  /\ ~Executed("download_from_github")
     => ~tempFs.exists /\ ~temp_dir /\ ~Executed("cleanup")

C6_Witness ==
  /\ pc = "done"
  /\ ret["install_files"] = "fail"
  /\ ret["rollback"] = "fail"
  /\ Executed("cleanup")

\* C7: install() returns True (exit code 0) exactly when validate_target,
\* check_existing_installation, create_backup, download_from_github and
\* install_files all succeeded and False (exit code 1) otherwise, whatever
\* rollback and cleanup did; and every run terminates.
AllStepsOk ==
  \A s \in {"validate_target", "check_existing_installation",
            "create_backup", "download_from_github", "install_files"} :
    ret[s] = "ok"

C7_Outcome ==
  /\ pc # "done" => result = "none"
  /\ pc = "done" =>
       /\ result \in {"True", "False"}
       /\ (result = "True" <=> AllStepsOk)
       /\ (ExitCode = 0 <=> AllStepsOk)
       /\ (ExitCode = 1 <=> ~AllStepsOk)

C7_SuccessIffAllStepsOk == []C7_Outcome /\ <>(pc = "done")

C7_Witness ==
  /\ pc = "done"
  /\ result = "True"
  /\ ret["cleanup"] = "fail"

\* C8: rollback runs if and only if install_files failed, right after
\* install_files and before cleanup.
C8_RollbackIffInstallFailed ==
  /\ Executed("rollback") =>
       /\ ret["install_files"] = "fail"
       /\ Pos("rollback") = Pos("install_files") + 1
  /\ Executed("cleanup") =>
       /\ ret["install_files"] = "fail" => Executed("rollback")
       /\ Executed("rollback") => Pos("rollback") < Pos("cleanup")
  /\ pc = "done" => (Executed("rollback") <=> ret["install_files"] = "fail")

C8_Witness ==
  /\ pc = "done"
  /\ Executed("rollback")
  /\ steps[Len(steps)] = "cleanup"
  /\ ret["install_files"] = "fail"

\* C9: after a successful install_files whose source has .copilot, the
\* target's .copilot holds exactly the files of the source's .copilot,
\* with README.md replaced by the source's README.md when it has one; no
\* other file of the earlier .copilot survives.
C9_CopilotReplacedNotMerged ==
  (/\ ret["install_files"] = "ok"
   /\ Src.copilot.exists)
  => copilot = Dir([Src.copilot.files EXCEPT
                      ![Readme] = IF Src.readme # Absent
                                  THEN Src.readme ELSE @])

C9_Witness ==
  /\ ret["install_files"] = "ok"
  /\ Src.copilot.exists
  /\ \E n \in Names \ {Readme} :
       pre.copilot.files[n] # Absent /\ Src.copilot.files[n] = Absent
  /\ Src.readme # Absent

\* install_files can return True from the current state
InstallCanSucceed ==
  \E o \in InstallOutcomes([githubDir |-> githubDir, marker |-> marker,
                            copilot |-> copilot, ok |-> TRUE],
                           tempFs.extracted) : o.ok

====
